---- MODULE Spec2Model ----
(***************************************************************************)
(* Model of the Flipkart product recommender: the conversational RAG chain *)
(* built by RAGChainBuilder (rag_chain.py) with its per-session history    *)
(* store, and the CSV ingestion path (data_converter.py, data_ingestion.py *)
(* and data/Improved/n_data_ingestion.py).                                 *)
(*                                                                         *)
(* Threads invoke the chain returned by build_chain.  One invocation is    *)
(* _get_history (lines 45-47, one step per statement), the load of the     *)
(* stored messages, the history-aware retriever (rewrite, retrieve), the   *)
(* answer generation and, on success only, the two add_message calls that  *)
(* record the user and the assistant turn.                                 *)
(***************************************************************************)
EXTENDS Integers, Sequences, FiniteSets, TLC

\* ---- bounds ----
MaxCalls == 3
MaxRows == 3
MaxIngests == 2

\* ---- program constants ----
K == 3
DefaultBatchSize == 20

\* ---- input domains ----
Threads == {"t1", "t2"}
Sessions == {"s1", "s2"}
Questions == {"q1", "q2"}
Standalones == {"sq1"}
Answers == {"a1", "a2"}
NaN == "NaN"
Titles == {"Phone X", NaN}
Reviews == {"Great battery life", "Screen cracked easily", NaN}
BatchSizes == {DefaultBatchSize, 5}

None == 0
ObjIds == 1..MaxCalls

VARIABLES history_store, heap, nobjs, th, ncalls, completed,
          vstore, file, ing, ningest

vars == <<history_store, heap, nobjs, th, ncalls, completed,
          vstore, file, ing, ningest>>
chainVars == <<history_store, heap, nobjs, th, ncalls, completed>>
ingestVars == <<vstore, file, ing, ningest>>

\* ---- messages and documents ----
HumanMessage(text) == [role |-> "user", text |-> text]

AIMessage(text) == [role |-> "assistant", text |-> text]

Document(page_content, product_name) ==
    [page_content |-> page_content, metadata |-> [product_name |-> product_name]]

\* Document.page_content is a str field: a missing CSV value (NaN, a float)
\* is rejected when the Document is constructed.
DocumentRejects(page_content) == page_content = NaN

\* ---- ChatMessageHistory ----
add_message_front(messages, m) == <<m>> \o messages

add_message(messages, m) == Append(messages, m)

\* ---- RAGChainBuilder._get_history, line 45 ----
NotInStoreAlways(store, session_id) == TRUE

NotInStore(store, session_id) == store[session_id] = None

\* ---- thread-local state of one invocation ----
NoResult == [kind |-> "none", value |-> ""]

IdleThread ==
    [pc |-> "idle", session_id |-> "s1", input |-> "q1", hist |-> None,
     chat_history |-> <<>>, query |-> "", context |-> <<>>, gen_input |-> "",
     answer |-> "", result |-> NoResult, stages |-> <<>>]

AtRest(t) == th[t].pc \in {"idle", "done", "error"}

InFlightOn(s) == \E u \in Threads : ~AtRest(u) /\ th[u].session_id = s

\* ---- the vector store ----
InitialStore ==
    << Document("Great battery life", "Phone X"),
       Document("Screen cracked easily", "Phone X") >>

Min(a, b) == IF a < b THEN a ELSE b

\* similarity_search(query, k): min(k, |store|) distinct documents of the
\* store, in an order decided by the (opaque) similarity metric.
SimilaritySearch(store, query, k) ==
    { r \in [1..Min(k, Len(store)) -> 1..Len(store)] :
        \A i, j \in DOMAIN r : i # j => r[i] # r[j] }

Retrieved(store, r) == [i \in DOMAIN r |-> store[r[i]]]

\* ---- create_retrieval_chain: the {input} slot of qa_prompt ----
GenerationInputRewritten(input, query) == query

GenerationInput(input, query) == input

\* ---- Init ----
ChainInit ==
    /\ history_store = [s \in Sessions |-> None]
    /\ heap = [o \in ObjIds |-> <<>>]
    /\ nobjs = 0
    /\ th = [t \in Threads |-> IdleThread]
    /\ ncalls = 0
    /\ completed = [s \in Sessions |-> <<>>]

NoIngest == [op |-> "none", result |-> "none", added |-> <<>>, batch_size |-> 0]

\* The chain runs against a store that already holds the data
\* (ingest(load_existing=True)): no ingestion step is part of Next.
Init ==
    /\ ChainInit
    /\ vstore = InitialStore
    /\ file = <<>>
    /\ ing = NoIngest
    /\ ningest = 0

\* ---- RunnableWithMessageHistory.invoke(input, session_id) ----
StartCall(t, s, q) ==
    /\ AtRest(t)
    /\ ncalls < MaxCalls
    /\ ncalls' = ncalls + 1
    /\ th' = [th EXCEPT ![t] = [IdleThread EXCEPT !.pc = "gh_check",
                                                  !.session_id = s,
                                                  !.input = q]]
    /\ UNCHANGED <<history_store, heap, nobjs, completed>>

Invoke(t, s, q) ==
    /\ StartCall(t, s, q)
    /\ UNCHANGED ingestVars

\* The same call made by callers that never overlap two calls on one session
\* id; calls on different session ids interleave freely.
InvokeSeq(t, s, q) ==
    /\ ~InFlightOn(s)
    /\ StartCall(t, s, q)
    /\ UNCHANGED ingestVars

\* ---- _get_history, line 45: if session_id not in self.history_store ----
GetHistoryCheck(t) ==
    /\ th[t].pc = "gh_check"
    /\ th' = [th EXCEPT ![t].pc =
                 IF NotInStore(history_store, th[t].session_id)
                 THEN "gh_set" ELSE "gh_ret"]
    /\ UNCHANGED <<history_store, heap, nobjs, ncalls, completed>>
    /\ UNCHANGED ingestVars

\* ---- line 46: self.history_store[session_id] = ChatMessageHistory() ----
GetHistorySet(t) ==
    /\ th[t].pc = "gh_set"
    /\ nobjs < MaxCalls
    /\ nobjs' = nobjs + 1
    /\ heap' = [heap EXCEPT ![nobjs + 1] = <<>>]
    /\ history_store' = [history_store EXCEPT ![th[t].session_id] = nobjs + 1]
    /\ th' = [th EXCEPT ![t].pc = "gh_ret"]
    /\ UNCHANGED <<ncalls, completed>>
    /\ UNCHANGED ingestVars

\* ---- line 47: return self.history_store[session_id] ----
GetHistoryReturn(t) ==
    /\ th[t].pc = "gh_ret"
    /\ th' = [th EXCEPT ![t].hist = history_store[th[t].session_id],
                        ![t].pc = "enter"]
    /\ UNCHANGED <<history_store, heap, nobjs, ncalls, completed>>
    /\ UNCHANGED ingestVars

\* A wrapper that records the question as soon as the call starts.
EnterHistoryEager(t) ==
    /\ th[t].pc = "enter"
    /\ heap' = [heap EXCEPT ![th[t].hist] =
                   add_message(heap[th[t].hist], HumanMessage(th[t].input))]
    /\ th' = [th EXCEPT ![t].chat_history = heap[th[t].hist],
                        ![t].pc = "rewrite"]
    /\ UNCHANGED <<history_store, nobjs, ncalls, completed>>
    /\ UNCHANGED ingestVars

\* ---- history_messages_key="chat_history": the stored messages are loaded ----
EnterHistory(t) ==
    /\ th[t].pc = "enter"
    /\ th' = [th EXCEPT ![t].chat_history = heap[th[t].hist],
                        ![t].pc = "rewrite"]
    /\ UNCHANGED <<history_store, heap, nobjs, ncalls, completed>>
    /\ UNCHANGED ingestVars

\* A stage that raises: the exception propagates out of the chain.
Raise(t, stage) ==
    [th EXCEPT ![t].pc = "error",
               ![t].stages = Append(th[t].stages, stage),
               ![t].result = [kind |-> "error", value |-> stage]]

\* ---- history_aware_retriever, first half: the standalone question ----
\* With no chat history the input is passed to the retriever unchanged and
\* the model is not called; otherwise context_prompt | model | parser.
Rewrite(t) ==
    /\ th[t].pc = "rewrite"
    /\ IF th[t].chat_history = <<>>
       THEN th' = [th EXCEPT ![t].query = th[t].input,
                             ![t].stages = Append(th[t].stages, "rewrite"),
                             ![t].pc = "retrieve"]
       ELSE \/ th' = Raise(t, "rewrite")
            \/ \E sq \in Standalones :
                 th' = [th EXCEPT ![t].query = sq,
                                  ![t].stages = Append(th[t].stages, "rewrite"),
                                  ![t].pc = "retrieve"]
    /\ UNCHANGED <<history_store, heap, nobjs, ncalls, completed>>
    /\ UNCHANGED ingestVars

\* A retriever whose failure is swallowed and treated as "no context".
RetrieveSwallow(t) ==
    /\ th[t].pc = "retrieve"
    /\ \/ th' = [th EXCEPT ![t].context = <<>>,
                           ![t].stages = Append(th[t].stages, "retrieve"),
                           ![t].result = [kind |-> "error", value |-> "retrieve"],
                           ![t].pc = "generate"]
       \/ \E r \in SimilaritySearch(vstore, th[t].query, K) :
            th' = [th EXCEPT ![t].context = Retrieved(vstore, r),
                             ![t].stages = Append(th[t].stages, "retrieve"),
                             ![t].pc = "generate"]
    /\ UNCHANGED <<history_store, heap, nobjs, ncalls, completed>>
    /\ UNCHANGED ingestVars

\* ---- history_aware_retriever, second half: retriever with k = 3 ----
Retrieve(t) ==
    /\ th[t].pc = "retrieve"
    /\ \/ th' = Raise(t, "retrieve")
       \/ \E r \in SimilaritySearch(vstore, th[t].query, K) :
            th' = [th EXCEPT ![t].context = Retrieved(vstore, r),
                             ![t].stages = Append(th[t].stages, "retrieve"),
                             ![t].pc = "generate"]
    /\ UNCHANGED <<history_store, heap, nobjs, ncalls, completed>>
    /\ UNCHANGED ingestVars

\* ---- question_answer_chain: qa_prompt | model ----
Generate(t) ==
    /\ th[t].pc = "generate"
    /\ \/ th' = [Raise(t, "generate") EXCEPT
                   ![t].gen_input = GenerationInput(th[t].input, th[t].query)]
       \/ \E a \in Answers :
            th' = [th EXCEPT ![t].gen_input = GenerationInput(th[t].input, th[t].query),
                             ![t].answer = a,
                             ![t].stages = Append(th[t].stages, "generate"),
                             ![t].pc = "rec_user"]
    /\ UNCHANGED <<history_store, heap, nobjs, ncalls, completed>>
    /\ UNCHANGED ingestVars

\* ---- on success: history.add_messages([input] + [answer]), first message ----
ExitHistoryUser(t) ==
    /\ th[t].pc = "rec_user"
    /\ heap' = [heap EXCEPT ![th[t].hist] =
                   add_message(heap[th[t].hist], HumanMessage(th[t].input))]
    /\ th' = [th EXCEPT ![t].stages = Append(th[t].stages, "record"),
                        ![t].pc = "rec_ai"]
    /\ UNCHANGED <<history_store, nobjs, ncalls, completed>>
    /\ UNCHANGED ingestVars

\* ---- second message; the call then returns the answer ----
ExitHistoryAI(t) ==
    /\ th[t].pc = "rec_ai"
    /\ heap' = [heap EXCEPT ![th[t].hist] =
                   add_message(heap[th[t].hist], AIMessage(th[t].answer))]
    /\ completed' = [completed EXCEPT ![th[t].session_id] =
                        Append(completed[th[t].session_id],
                               <<th[t].input, th[t].answer>>)]
    /\ th' = [th EXCEPT ![t].result = [kind |-> "answer", value |-> th[t].answer],
                        ![t].pc = "done"]
    /\ UNCHANGED <<history_store, nobjs, ncalls>>
    /\ UNCHANGED ingestVars

Step(t) ==
    \/ GetHistoryCheck(t)
    \/ GetHistorySet(t)
    \/ GetHistoryReturn(t)
    \/ EnterHistory(t)
    \/ Rewrite(t)
    \/ Retrieve(t)
    \/ Generate(t)
    \/ ExitHistoryUser(t)
    \/ ExitHistoryAI(t)

\* Threads call the chain concurrently, on any session id.
Next ==
    \/ \E t \in Threads, s \in Sessions, q \in Questions : Invoke(t, s, q)
    \/ \E t \in Threads : Step(t)

Spec == Init /\ [][Next]_vars

\* Calls on one session id never overlap.
NextSeq ==
    \/ \E t \in Threads, s \in Sessions, q \in Questions : InvokeSeq(t, s, q)
    \/ \E t \in Threads : Step(t)

SeqSpec == Init /\ [][NextSeq]_vars

\* ======================= ingestion =======================
Rows == [product_title : Titles, review : Reviews]

Files == UNION { [1..n -> Rows] : n \in 0..MaxRows }

\* ---- DataConverter.__init__(self, file_path) ----
DataConverterInitParams == {"file_path"}

\* ---- n_data_ingestion.py line 57: the arguments of the constructor call ----
ImprovedConverterArgs == {"file_path", "content_col", "metadata_col"}

\* A conversion that takes the content from the wrong column.
convert_swapped(f) ==
    [i \in 1..Len(f) |-> Document(f[i].product_title, f[i].review)]

\* ---- DataConverter.convert: one Document per row, in row order ----
convert(f) ==
    [i \in 1..Len(f) |-> Document(f[i].review, f[i].product_title)]

\* convert raises when the construction of some row's Document does.
ConvertRaises(f) == \E i \in 1..Len(f) : DocumentRejects(f[i].review)

\* ---- vstore.add_documents(docs[, batch_size]) ----
add_documents(store, docs) == store \o docs

IngestInit ==
    /\ ChainInit
    /\ vstore = <<>>
    /\ file \in Files
    /\ ing = NoIngest
    /\ ningest = 0

\* ---- DataIngestor.ingest(load_existing) ----
Ingest(load_existing) ==
    /\ ningest < MaxIngests
    /\ ningest' = ningest + 1
    /\ IF load_existing
       THEN /\ ing' = [op |-> "existing", result |-> "vstore",
                       added |-> <<>>, batch_size |-> 0]
            /\ UNCHANGED vstore
       ELSE IF ConvertRaises(file)
       THEN /\ ing' = [op |-> "fresh", result |-> "ValidationError",
                       added |-> <<>>, batch_size |-> 0]
            /\ UNCHANGED vstore
       ELSE /\ vstore' = add_documents(vstore, convert(file))
            /\ ing' = [op |-> "fresh", result |-> "vstore",
                       added |-> convert(file), batch_size |-> 0]
    /\ UNCHANGED file
    /\ UNCHANGED chainVars

\* ---- Improved DataIngestor.ingest(file_path, batch_size) ----
ImprovedIngest(batch_size) ==
    /\ ningest < MaxIngests
    /\ ningest' = ningest + 1
    /\ IF ~(ImprovedConverterArgs \subseteq DataConverterInitParams)
       THEN /\ ing' = [op |-> "improved", result |-> "TypeError",
                       added |-> <<>>, batch_size |-> batch_size]
            /\ UNCHANGED vstore
       ELSE IF ConvertRaises(file)
       THEN /\ ing' = [op |-> "improved", result |-> "ValidationError",
                       added |-> <<>>, batch_size |-> batch_size]
            /\ UNCHANGED vstore
       ELSE IF convert(file) = <<>>
       THEN /\ ing' = [op |-> "improved", result |-> "vstore",
                       added |-> <<>>, batch_size |-> batch_size]
            /\ UNCHANGED vstore
       ELSE /\ vstore' = add_documents(vstore, convert(file))
            /\ ing' = [op |-> "improved", result |-> "vstore",
                       added |-> convert(file), batch_size |-> batch_size]
    /\ UNCHANGED file
    /\ UNCHANGED chainVars

IngestNext ==
    \/ \E load_existing \in BOOLEAN : Ingest(load_existing)
    \/ \E batch_size \in BatchSizes : ImprovedIngest(batch_size)

IngestSpec == IngestInit /\ [][IngestNext]_vars

\* ======================= properties =======================
StoredTurns(s) ==
    IF history_store[s] = None THEN <<>> ELSE heap[history_store[s]]

\* The turns N successful calls must leave, from the log of (question, answer).
TurnsOf(calls) ==
    [i \in 1..(2 * Len(calls)) |->
        IF i % 2 = 1
        THEN [role |-> "user", text |-> calls[(i + 1) \div 2][1]]
        ELSE [role |-> "assistant", text |-> calls[i \div 2][2]]]

Recording(s) == \E u \in Threads : th[u].pc = "rec_ai" /\ th[u].session_id = s

\* C1: after N successful calls on a session (calls on other sessions
\* interleaved in any order), the stored history of the session is exactly the
\* 2N turns user question, assistant answer of the calls, in call order.
C1_HistoryHoldsTwoNTurns ==
    \A s \in Sessions :
        ~Recording(s) => StoredTurns(s) = TurnsOf(completed[s])

C1_Witness ==
    /\ Len(completed["s1"]) = 2
    /\ Len(completed["s2"]) = 1
    /\ completed["s1"][1] # completed["s1"][2]
    /\ Len(StoredTurns("s1")) = 4
    /\ \A t \in Threads : AtRest(t)

\* C2: a call that fails at rewrite, retrieval or generation leaves the
\* history of its session as it was when the call loaded it; a history changes
\* only by the append of the user turn, then of the assistant turn, of a call
\* whose generation has succeeded.
C2_FailedCallLeavesHistory ==
    [][ /\ \A t \in Threads :
             (th[t].pc # "error" /\ th'[t].pc = "error") =>
                /\ heap' = heap
                /\ history_store' = history_store
                /\ StoredTurns(th[t].session_id)' = th[t].chat_history
        /\ \A o \in ObjIds :
             heap'[o] # heap[o] =>
                \E t \in Threads :
                   /\ th[t].hist = o
                   /\ "generate" \in { th[t].stages[i] : i \in DOMAIN th[t].stages }
                   /\ th[t].answer \in Answers
                   /\ \/ /\ th[t].pc = "rec_user"
                         /\ heap'[o] = Append(heap[o],
                                [role |-> "user", text |-> th[t].input])
                      \/ /\ th[t].pc = "rec_ai"
                         /\ heap[o] # <<>>
                         /\ heap[o][Len(heap[o])] =
                                [role |-> "user", text |-> th[t].input]
                         /\ heap'[o] = Append(heap[o],
                                [role |-> "assistant", text |-> th[t].answer])
      ]_vars

C2_Witness ==
    \E t \in Threads :
        /\ th[t].pc = "error"
        /\ th[t].result.value = "generate"
        /\ Len(th[t].chat_history) = 2
        /\ StoredTurns(th[t].session_id) = th[t].chat_history

Paired(m) ==
    /\ Len(m) % 2 = 0
    /\ \A i \in 1..Len(m) :
          m[i].role = (IF i % 2 = 1 THEN "user" ELSE "assistant")

HoldsPair(m, q, a) ==
    \E i \in 1..(Len(m) - 1) :
        /\ i % 2 = 1
        /\ m[i] = [role |-> "user", text |-> q]
        /\ m[i + 1] = [role |-> "assistant", text |-> a]

\* C3: under concurrent calls on one session id, the history the calls share
\* holds the (user, assistant) pair of every completed call contiguously: no
\* turn of one call sits between the two turns of another.
C3_PairsContiguous ==
    \A t \in Threads :
        (th[t].pc = "done" /\ th[t].hist = history_store[th[t].session_id]) =>
            /\ HoldsPair(heap[th[t].hist], th[t].input, th[t].answer)
            /\ (~Recording(th[t].session_id) => Paired(heap[th[t].hist]))

\* C4: called sequentially, _get_history returns for a session id the object
\* stored in history_store: created empty on the first call, returned with
\* the turns accumulated so far on every later call, never replaced.
C4_GetHistorySameObject ==
    [][ /\ \A s \in Sessions :
             /\ history_store[s] # None => history_store'[s] = history_store[s]
             /\ (history_store[s] = None /\ history_store'[s] # None) =>
                    heap'[history_store'[s]] = <<>>
        /\ \A t \in Threads :
             (th[t].pc = "gh_ret" /\ th'[t].pc = "enter") =>
                /\ th'[t].hist # None
                /\ th'[t].hist = history_store[th[t].session_id]
                /\ heap'[th'[t].hist] = TurnsOf(completed[th[t].session_id])
      ]_vars

C4_Witness ==
    \E t \in Threads :
        /\ th[t].pc = "enter"
        /\ Len(completed[th[t].session_id]) = 2
        /\ th[t].hist = history_store[th[t].session_id]
        /\ Len(heap[th[t].hist]) = 4

\* C5: the question given to answer generation and the recorded user turn are
\* the caller's original question; with an empty history the retrieval query
\* is the original question, otherwise it is the rewritten one, which goes
\* nowhere else.
C5_OriginalQuestionUsed ==
    \A t \in Threads :
        /\ (th[t].pc \in {"rec_user", "rec_ai", "done"}
              \/ (th[t].pc = "error" /\ th[t].result.value = "generate"))
             => th[t].gen_input = th[t].input
        /\ th[t].pc = "rec_ai" =>
             /\ heap[th[t].hist] # <<>>
             /\ heap[th[t].hist][Len(heap[th[t].hist])] =
                   [role |-> "user", text |-> th[t].input]
        /\ th[t].pc \in {"retrieve", "generate", "rec_user", "rec_ai", "done"} =>
             IF th[t].chat_history = <<>>
             THEN th[t].query = th[t].input
             ELSE th[t].query \in Standalones

C5_Witness ==
    \E t \in Threads :
        /\ th[t].pc = "done"
        /\ th[t].chat_history # <<>>
        /\ th[t].query \in Standalones
        /\ th[t].query # th[t].input
        /\ th[t].gen_input = th[t].input
        /\ HoldsPair(heap[th[t].hist], th[t].input, th[t].answer)

\* C6: ingesting a file in which exactly one row has no review adds the
\* other M-1 rows' documents and does not fail.
C6_MissingReviewRowSkipped ==
    (ing.op = "fresh"
       /\ Cardinality({ i \in 1..Len(file) : file[i].review = NaN }) = 1)
      => (ing.result = "vstore" /\ Len(ing.added) = Len(file) - 1)

WellFormed(f) ==
    \A i \in 1..Len(f) : f[i].review # NaN /\ f[i].product_title # NaN

\* C7: for a file of M well-formed rows, ingest(load_existing=False) adds to
\* the store exactly M documents in row order, the i-th with the i-th row's
\* review as content and its product_title as product_name;
\* ingest(load_existing=True) adds none and returns the store.
C7_ConvertAndIngest ==
    [][ (ningest' # ningest /\ WellFormed(file)) =>
          /\ ing'.op = "fresh" =>
                /\ ing'.result = "vstore"
                /\ Len(vstore') = Len(vstore) + Len(file)
                /\ SubSeq(vstore', 1, Len(vstore)) = vstore
                /\ SubSeq(vstore', Len(vstore) + 1, Len(vstore')) = ing'.added
                /\ \A i \in 1..Len(file) :
                      /\ vstore'[Len(vstore) + i].page_content = file[i].review
                      /\ vstore'[Len(vstore) + i].metadata.product_name
                            = file[i].product_title
          /\ ing'.op = "existing" =>
                /\ ing'.result = "vstore"
                /\ vstore' = vstore
      ]_vars

C7_Witness ==
    /\ ing.op = "fresh"
    /\ ing.result = "vstore"
    /\ WellFormed(file)
    /\ Len(file) >= 2
    /\ file[1] # file[2]
    /\ ningest = 2
    /\ Len(vstore) = Len(file)

\* C8: the improved ingest converts the file and, when the conversion yields
\* documents, adds all of them with the given batch size and returns the
\* store; with no documents it adds nothing and returns the store.
C8_ImprovedIngestAddsAll ==
    (ing.op = "improved" /\ WellFormed(file)) =>
        /\ ing.result = "vstore"
        /\ Len(ing.added) = Len(file)
        /\ ing.batch_size \in BatchSizes

StageOrder == <<"rewrite", "retrieve", "generate", "record">>

IsPrefix(a, b) == Len(a) <= Len(b) /\ a = SubSeq(b, 1, Len(a))

\* C9: a call runs rewrite, retrieve, generate, record in this order and
\* stops at the first stage that fails: a stage has failed exactly when the
\* call has ended with that stage's error, no later stage has run, and an
\* answer is returned only by a call that ran all four stages.
C9_StagesInOrder ==
    \A t \in Threads :
        /\ IsPrefix(th[t].stages, StageOrder)
        /\ th[t].result.kind = "error" <=> th[t].pc = "error"
        /\ th[t].pc = "error" =>
             /\ th[t].stages # <<>>
             /\ th[t].result.value = th[t].stages[Len(th[t].stages)]
             /\ th[t].result.value \in {"rewrite", "retrieve", "generate"}
        /\ th[t].result.kind = "answer" <=> th[t].pc = "done"
        /\ th[t].pc = "done" =>
             /\ th[t].stages = StageOrder
             /\ th[t].result.value = th[t].answer

C9_Witness ==
    /\ \E t \in Threads : th[t].pc = "error" /\ th[t].result.value = "rewrite"
    /\ \E t \in Threads : th[t].pc = "error" /\ th[t].result.value = "retrieve"

\* C10: under concurrent _get_history calls a session id identifies one
\* history: the object a caller was handed is the one history_store holds
\* for its session id, now and later.
C10_OneHistoryPerSession ==
    \A t \in Threads :
        th[t].hist # None => history_store[th[t].session_id] = th[t].hist

====
